---- MODULE Spec2Model ----
(***************************************************************************)
(* Model of the tic-tac-toe CosmWasm contract (src/src/contract.rs,        *)
(* src/src/state.rs, src/src/msg.rs).  The stored State is the four fields *)
(* players, board, next_turn, winner; the entry points are instantiate and *)
(* execute(Move{row, col}) = try_move.                                     *)
(***************************************************************************)
EXTENDS Integers, FiniteSets, Sequences, TLC

\* ---- bounds of the model -------------------------------------------------
\* row and col are u8; the model draws them from 0..MaxCoord
MaxCoord == 3
\* number of accepted moves explored (the code itself has no such limit)
MaxMoves == 3
\* number of accepted moves explored by the two registered players in SpecPlay
MaxPlayMoves == 10

\* ---- inputs ----------------------------------------------------------------
Addrs == {"player0", "player1", "player2"}
\* the sender of instantiate in both tests (mock_info("player0", ..))
Creators == {"player0"}
Coords == 0..MaxCoord

\* ---- state.rs ----------------------------------------------------------------
GridCell == {"Empty", "X", "O"}
Turn == {"Player0", "Player1", "Ended"}
None == "None"

\* ---- responses of the entry points ------------------------------------------
Ok == "Ok"
ErrBounds == "Row and col must be between 1 and 3"
ErrNotAllowed == "You are not allowed to play"
ErrNotYourTurn == "It's not your turn"
ErrEnded == "The game has already ended"
NoRequest == [op |-> "none", sender |-> None, opponent |-> None, row |-> 0, col |-> 0]

VARIABLES
    stored,     \* TRUE once STATE has been saved by instantiate
    players,    \* State.players : [Addr; 2]
    board,      \* State.board : [[GridCell; 3]; 3]
    next_turn,  \* State.next_turn : Turn
    winner,     \* State.winner : Option<Addr>
    moveCount,  \* history: number of moves accepted since creation
    last,       \* history: the most recent request (entry point and arguments)
    res,        \* history: the response to the most recent request
    reply       \* history: the GetStateResponse of the most recent request, if a query

vars == <<stored, players, board, next_turn, winner, moveCount, last, res, reply>>
state == <<players, board, next_turn, winner>>

EmptyBoard == [r \in 0..2 |-> [c \in 0..2 |-> "Empty"]]

\* msg.rs GetStateResponse { state }
GetStateResponse(p, b, t, w) == [players |-> p, board |-> b, next_turn |-> t, winner |-> w]
\* no query has been answered by the most recent request
NoReply == GetStateResponse([i \in 0..1 |-> None], EmptyBoard, None, None)

Init ==
    /\ stored = FALSE
    /\ players = [i \in 0..1 |-> None]
    /\ board = EmptyBoard
    /\ next_turn = "Player0"
    /\ winner = None
    /\ moveCount = 0
    /\ last = NoRequest
    /\ res = None
    /\ reply = NoReply

\* instantiate with the two slots of players exchanged
instantiate_swapped(sender, opponent) ==
    /\ ~stored
    /\ stored' = TRUE
    /\ players' = [i \in 0..1 |-> IF i = 0 THEN opponent ELSE sender]
    /\ board' = EmptyBoard
    /\ next_turn' = "Player0"
    /\ winner' = None
    /\ moveCount' = 0
    /\ last' = [op |-> "instantiate", sender |-> sender, opponent |-> opponent,
                row |-> 0, col |-> 0]
    /\ res' = Ok
    /\ reply' = NoReply

\* contract.rs instantiate: builds the State and saves it; no check on opponent
instantiate(sender, opponent) ==
    /\ ~stored
    /\ stored' = TRUE
    /\ players' = [i \in 0..1 |-> IF i = 0 THEN sender ELSE opponent]
    /\ board' = EmptyBoard
    /\ next_turn' = "Player0"
    /\ winner' = None
    /\ moveCount' = 0
    /\ last' = [op |-> "instantiate", sender |-> sender, opponent |-> opponent,
                row |-> 0, col |-> 0]
    /\ res' = Ok
    /\ reply' = NoReply

\* contract.rs check_winner: the body is the constant None
check_winner(b, p) == None

\* contract.rs try_move, lines 112-118: the turn after an accepted move
FlipTurn(t) ==
    CASE t = "Player0" -> "Player1"
      [] t = "Player1" -> "Player0"
      [] OTHER -> "Ended"

\* the mark written if Player0 were given X and Player1 O after the flip
MarkOfSwapped(t) ==
    CASE t = "Player0" -> "O"
      [] t = "Player1" -> "X"
      [] OTHER -> "Empty"

\* contract.rs try_move, lines 120-126: the mark written, chosen by the turn
\* already flipped
MarkOf(t) ==
    CASE t = "Player0" -> "X"
      [] t = "Player1" -> "O"
      [] OTHER -> "Empty"

\* the checks without the comparison of the sender with the turn's player
CheckMoveNoTurn(sender, row, col) ==
    IF (row < 0 \/ row > 2) \/ (col < 0 \/ col > 2) THEN ErrBounds
    ELSE IF sender \notin {players[0], players[1]} THEN ErrNotAllowed
    ELSE IF next_turn = "Ended" THEN ErrEnded
    ELSE Ok

\* the checks with the bounds of the error message, 1..3
CheckMoveOneBased(sender, row, col) ==
    IF (row < 1 \/ row > 3) \/ (col < 1 \/ col > 3) THEN ErrBounds
    ELSE IF sender \notin {players[0], players[1]} THEN ErrNotAllowed
    ELSE IF next_turn = "Player0" /\ sender # players[0] THEN ErrNotYourTurn
    ELSE IF next_turn = "Player1" /\ sender # players[1] THEN ErrNotYourTurn
    ELSE IF next_turn = "Ended" THEN ErrEnded
    ELSE Ok

\* contract.rs try_move, lines 73-109: the checks, in the order of the code
CheckMove(sender, row, col) ==
    IF (row < 0 \/ row > 2) \/ (col < 0 \/ col > 2) THEN ErrBounds
    ELSE IF sender \notin {players[0], players[1]} THEN ErrNotAllowed
    ELSE IF next_turn = "Player0" /\ sender # players[0] THEN ErrNotYourTurn
    ELSE IF next_turn = "Player1" /\ sender # players[1] THEN ErrNotYourTurn
    ELSE IF next_turn = "Ended" THEN ErrEnded
    ELSE Ok

\* try_move writing the mark over the whole row instead of one cell
try_move_row(sender, row, col) ==
    /\ stored
    /\ last' = [op |-> "move", sender |-> sender, opponent |-> None,
                row |-> row, col |-> col]
    /\ res' = CheckMove(sender, row, col)
    /\ reply' = NoReply
    /\ IF CheckMove(sender, row, col) = Ok
       THEN /\ next_turn' = FlipTurn(next_turn)
            /\ board' = [board EXCEPT ![row] = [c \in 0..2 |-> MarkOf(FlipTurn(next_turn))]]
            /\ winner' = check_winner(board', players)
            /\ moveCount' = moveCount + 1
            /\ UNCHANGED <<stored, players>>
       ELSE UNCHANGED <<stored, players, board, next_turn, winner, moveCount>>

\* try_move flipping the stored turn before the sender is checked
try_move_dirty(sender, row, col) ==
    /\ stored
    /\ last' = [op |-> "move", sender |-> sender, opponent |-> None,
                row |-> row, col |-> col]
    /\ res' = CheckMove(sender, row, col)
    /\ reply' = NoReply
    /\ IF CheckMove(sender, row, col) = Ok
       THEN /\ next_turn' = FlipTurn(next_turn)
            /\ board' = [board EXCEPT ![row][col] = MarkOf(FlipTurn(next_turn))]
            /\ winner' = check_winner(board', players)
            /\ moveCount' = moveCount + 1
            /\ UNCHANGED <<stored, players>>
       ELSE IF CheckMove(sender, row, col) = ErrBounds
       THEN UNCHANGED <<stored, players, board, next_turn, winner, moveCount>>
       ELSE /\ next_turn' = FlipTurn(next_turn)
            /\ UNCHANGED <<stored, players, board, winner, moveCount>>

\* contract.rs try_move (execute Move{row, col}): the whole handler
try_move(sender, row, col) ==
    /\ stored
    /\ last' = [op |-> "move", sender |-> sender, opponent |-> None,
                row |-> row, col |-> col]
    /\ res' = CheckMove(sender, row, col)
    /\ reply' = NoReply
    /\ IF CheckMove(sender, row, col) = Ok
       THEN /\ next_turn' = FlipTurn(next_turn)
            /\ board' = [board EXCEPT ![row][col] = MarkOf(FlipTurn(next_turn))]
            /\ winner' = check_winner(board', players)
            /\ moveCount' = moveCount + 1
            /\ UNCHANGED <<stored, players>>
       ELSE UNCHANGED <<stored, players, board, next_turn, winner, moveCount>>

\* query_state answering with the freshly created state instead of the stored one
query_state_stale ==
    /\ stored
    /\ last' = [op |-> "query", sender |-> None, opponent |-> None, row |-> 0, col |-> 0]
    /\ res' = Ok
    /\ reply' = GetStateResponse(players, EmptyBoard, "Player0", None)
    /\ UNCHANGED <<stored, players, board, next_turn, winner, moveCount>>

\* contract.rs query / query_state (GetState): loads STATE and returns it
query_state ==
    /\ stored
    /\ last' = [op |-> "query", sender |-> None, opponent |-> None, row |-> 0, col |-> 0]
    /\ res' = Ok
    /\ reply' = GetStateResponse(players, board, next_turn, winner)
    /\ UNCHANGED <<stored, players, board, next_turn, winner, moveCount>>

Instantiate == \E s \in Creators, o \in Addrs : instantiate(s, o)
Move == \E s \in Addrs, r \in Coords, c \in Coords :
            /\ moveCount < MaxMoves
            /\ try_move(s, r, c)

Query == query_state

Next == Instantiate \/ Move \/ Query
Spec == Init /\ [][Next]_vars

\* ---- the game played by the two registered players of the tests ----------
\* tests::test_move, lines 178-180: instantiate by player0 with opponent player1
InitPlay ==
    /\ stored = TRUE
    /\ players = [i \in 0..1 |-> IF i = 0 THEN "player0" ELSE "player1"]
    /\ board = EmptyBoard
    /\ next_turn = "Player0"
    /\ winner = None
    /\ moveCount = 0
    /\ last = [op |-> "instantiate", sender |-> "player0", opponent |-> "player1",
               row |-> 0, col |-> 0]
    /\ res = Ok
    /\ reply = NoReply

Play == \E s \in {"player0", "player1"}, r \in 0..2, c \in 0..2 :
            /\ moveCount < MaxPlayMoves
            /\ try_move(s, r, c)

SpecPlay == InitPlay /\ [][Play]_vars

\* ---- the same game when every move is the turn's player on an Empty cell ---
LegalMove == \E r \in 0..2, c \in 0..2 :
                /\ board[r][c] = "Empty"
                /\ try_move(IF next_turn = "Player0" THEN players[0] ELSE players[1], r, c)

SpecLegal == InitPlay /\ [][LegalMove]_vars

\* the player whose turn it is keeps submitting moves to Empty cells
SpecLegalFair == SpecLegal /\ WF_vars(LegalMove)

\* ---- vocabulary of the claims -------------------------------------------
\* the 8 lines: 3 rows, 3 columns, 2 diagonals
Lines ==
    {{<<r, c>> : c \in 0..2} : r \in 0..2} \cup
    {{<<r, c>> : r \in 0..2} : c \in 0..2} \cup
    {{<<i, i>> : i \in 0..2}, {<<i, 2 - i>> : i \in 0..2}}

LineOf(b, m) == \E l \in Lines : \A p \in l : b[p[1]][p[2]] = m
HasLine(b) == LineOf(b, "X") \/ LineOf(b, "O")
BoardFull(b) == \A r \in 0..2, c \in 0..2 : b[r][c] # "Empty"
InRange(q) == q.row \in 0..2 /\ q.col \in 0..2
\* the registered player the turn designates
TurnPlayer == IF next_turn = "Player0" THEN players[0] ELSE players[1]
MoveStep == last'.op = "move"
AcceptedMove == last.op = "move" /\ res = Ok
Occupied(b) == Cardinality({p \in (0..2) \X (0..2) : b[p[1]][p[2]] # "Empty"})
\* a winner's line or a full board
Terminal(b) == HasLine(b) \/ BoardFull(b)
\* the error of the first failing check in the order bounds, game ended,
\* unknown player, not your turn, cell occupied (Ok when none fails)
OrderedError(q) ==
    IF ~InRange(q) THEN "OutOfBounds"
    ELSE IF next_turn = "Ended" \/ winner # None \/ Terminal(board) THEN "GameOver"
    ELSE IF q.sender \notin {players[0], players[1]} THEN "UnknownPlayer"
    ELSE IF q.sender # TurnPlayer THEN "NotYourTurn"
    ELSE IF board[q.row][q.col] # "Empty" THEN "CellOccupied"
    ELSE Ok
\* the name the claims give to each response of try_move
ErrorKind(e) ==
    CASE e = ErrBounds -> "OutOfBounds"
      [] e = ErrEnded -> "GameOver"
      [] e = ErrNotAllowed -> "UnknownPlayer"
      [] e = ErrNotYourTurn -> "NotYourTurn"
      [] OTHER -> e

\* ---- claims ----------------------------------------------------------------

\* C1: a move by the player whose turn it is, in range, onto a cell that
\* already holds X or O is rejected and leaves board, next_turn, winner and
\* players as they were.
C1_OccupiedCellRejected ==
    [][(/\ MoveStep
        /\ InRange(last')
        /\ last'.sender = TurnPlayer
        /\ board[last'.row][last'.col] # "Empty")
       => (res' # Ok /\ state' = state)]_vars

\* C2: an accepted move writes the mark of the acting player: X when the turn
\* before the move is Player0, O when it is Player1.
C2_MarkOfActingPlayer ==
    [][(MoveStep /\ res' = Ok)
       => board'[last'.row][last'.col] =
              (IF next_turn = "Player0" THEN "X" ELSE "O")]_vars

C4_LineEndsGameWithWinner ==
    (AcceptedMove /\ HasLine(board))
       => (winner \in {players[0], players[1]} /\ next_turn = "Ended")

\* C5: after an accepted move that leaves the board full with no line there is
\* no winner and the turn is Ended.
C5_FullBoardIsDraw ==
    (AcceptedMove /\ BoardFull(board) /\ ~HasLine(board))
       => (winner = None /\ next_turn = "Ended")

\* C6: once a winner exists or the board is full, every later move is
\* rejected as game over and the state never changes again.
C6_TerminalIsFinal ==
    [][(stored /\ MoveStep /\ (winner # None \/ BoardFull(board)))
       => (res' = ErrEnded /\ state' = state)]_vars

\* C7: a move is accepted only from the player the turn designates; an
\* in-range move by a sender who is not a player is rejected as not allowed,
\* one by a player out of turn as not their turn, and neither changes the
\* state.
C7_OnlyTurnPlayerMoves ==
    [][MoveStep =>
        /\ res' = Ok => last'.sender = TurnPlayer
        /\ last'.sender \notin {players[0], players[1]}
              => /\ res' # Ok /\ state' = state
                 /\ InRange(last') => res' = ErrNotAllowed
        /\ (last'.sender \in {players[0], players[1]} /\ last'.sender # TurnPlayer)
              => /\ res' # Ok /\ state' = state
                 /\ InRange(last') => res' = ErrNotYourTurn]_vars

C7_Witness ==
    /\ last.op = "move" /\ InRange(last)
    /\ moveCount = 1
    /\ players[0] # players[1]
    /\ last.sender = players[0]
    /\ next_turn = "Player1"
    /\ res = ErrNotYourTurn

\* C8: a move that returns an error leaves board, next_turn, winner and
\* players exactly as they were.
C8_RejectionPurity ==
    [][(MoveStep /\ res' # Ok) => (state' = state /\ moveCount' = moveCount)]_vars

C8_Witness ==
    /\ last.op = "move" /\ res = ErrNotAllowed
    /\ moveCount = 2
    /\ board # EmptyBoard

C10_Creation ==
    last.op = "instantiate" =>
        /\ stored
        /\ board = EmptyBoard
        /\ next_turn = "Player0"
        /\ winner = None
        /\ players[0] = last.sender /\ players[1] = last.opponent
        /\ \A r \in 0..2, c \in 0..2 :
              /\ CheckMove(last.sender, r, c) = Ok
              /\ last.opponent # last.sender
                    => CheckMove(last.opponent, r, c) = ErrNotYourTurn

C10_Witness ==
    /\ last.op = "instantiate"
    /\ players[0] = "player0" /\ players[1] = "player1"
    /\ res = Ok

\* C11: creation with opponent equal to the sender stores no game, so in every
\* stored state players[0] differs from players[1].
C11_DistinctPlayers ==
    stored => players[0] # players[1]

\* C12: a query returns exactly the stored state and changes nothing.
C12_QueryReadsState ==
    [][last'.op = "query" =>
        /\ reply' = GetStateResponse(players, board, next_turn, winner)
        /\ state' = state
        /\ moveCount' = moveCount /\ stored' = stored]_vars

C12_Witness ==
    /\ last.op = "query"
    /\ moveCount = 2
    /\ board # EmptyBoard
    /\ reply = GetStateResponse(players, board, next_turn, winner)

\* C13: the number of non-Empty cells equals the number of moves accepted
\* since creation.
C13_OccupancyIsMoveCount ==
    stored => Occupied(board) = moveCount

\* C14: the turn does not change on a rejected move; on an accepted move it
\* flips Player0/Player1 until the board is terminal, and is Ended from then on.
C14_TurnAlternation ==
    [][MoveStep =>
        /\ res' # Ok => next_turn' = next_turn
        /\ res' = Ok => next_turn' =
              (IF Terminal(board') THEN "Ended" ELSE FlipTurn(next_turn))]_vars

\* C15: next_turn is Ended if and only if the board has a completed line or
\* no Empty cell.
C15_EndedIffTerminal ==
    stored => (next_turn = "Ended" <=> Terminal(board))

\* C16: the board never holds both a completed line of X and a completed
\* line of O.
C16_NoDoubleWinner ==
    ~(LineOf(board, "X") /\ LineOf(board, "O"))

\* C17: a cell that holds X or O holds the same mark in every later state.
C17_WriteOnce ==
    [][\A r \in 0..2, c \in 0..2 :
          board[r][c] # "Empty" => board'[r][c] = board[r][c]]_vars

C19_MoveFrame ==
    [][/\ stored => players' = players
       /\ (MoveStep /\ res' = Ok) =>
             \A r \in 0..2, c \in 0..2 :
                <<r, c>> # <<last'.row, last'.col>> => board'[r][c] = board[r][c]]_vars

C19_Witness ==
    /\ AcceptedMove
    /\ moveCount = 2
    /\ last.row = 1 /\ last.col = 1
    /\ board[0][0] = "O" /\ board[1][1] = "X"
    /\ players[0] = "player0" /\ players[1] = "player1"

\* C20: every game terminates: from creation at most 9 moves are ever
\* accepted.
C20_AtMostNineMoves ==
    stored => moveCount <= 9

\* C20, the part under fairness: when the turn's player keeps moving to Empty
\* cells (SpecLegalFair) the game eventually reaches next_turn = Ended.
C20_EventuallyEnded ==
    <>(next_turn = "Ended")

TypeOK ==
    /\ stored \in BOOLEAN
    /\ players \in [0..1 -> Addrs \cup {None}]
    /\ board \in [0..2 -> [0..2 -> GridCell]]
    /\ next_turn \in Turn
    /\ winner \in Addrs \cup {None}
    /\ moveCount \in Nat
====
